---- MODULE Spec2Model ----
(***************************************************************************)
(* Model of the wails sqlite plugin (src/plugin.go): the Config/Sqlite     *)
(* state, Init (createMemDB / createFileDB), Shutdown, SetDB, GetDB,       *)
(* Execute and Query, together with the part of the filesystem and of the  *)
(* database/sql connection these calls act on.                             *)
(*                                                                         *)
(* Strings are sequences of tokens (so that "+" is \o and a suffix can be  *)
(* counted); a path string is a sequence of components, each a string.     *)
(* An absolute path starts with the component ROOT; "" is <<>>.            *)
(***************************************************************************)
EXTENDS Integers, Sequences, FiniteSets, TLC

VARIABLES
    config,     \* the Config passed to NewPlugin
    goos,       \* runtime.GOOS
    cwd,        \* the working directory of the process
    fs,         \* the absolute paths that exist
    DB,         \* config.DB
    savedPath,  \* config.savedPath
    calls,      \* number of plugin calls made so far
    lastOp,     \* the last plugin call: its name,
    arg,        \*   its handle argument (SetDB),
    lastErr,    \*   the error it returned ("nil": none; "panic": it panicked),
    ret,        \*   the handle it returned (GetDB),
    trace,      \*   the library calls it made, in order
    pre,        \* DB, savedPath, fs and phase as they were before the last call
    phase       \* the specification's lifecycle state (history variable)

vars == <<config, goos, cwd, fs, DB, savedPath, calls, lastOp, arg, lastErr, ret, trace, pre, phase>>

----------------------------------------------------------------------------
(* Bounds *)

\* number of plugin calls made by the host in one run
MaxCalls == 3

\* largest configured MaxOpenConnections / MaxIdleConnections
MaxConnCfg == 2

----------------------------------------------------------------------------
(* Program constants *)

\* plugin.go:186  idle = 2
DefaultIdle == 2

\* plugin.go:189  open = 1
DefaultOpen == 1

\* plugin.go:165  "?cache=shared"
CacheSuffix == <<"?cache=shared">>

\* plugin.go:162  ".db"
DbExt == <<".db">>

\* plugin.go:128  ":memory:"
MemoryDSN == << <<":memory:">> >>

----------------------------------------------------------------------------
(* Strings and paths *)

ROOT == <<"/">>

DOT == <<".">>

\* the environment the process runs in
HOME == <<ROOT, <<"home">>, <<"u">>>>

APPDATA == <<ROOT, <<"AppData">>, <<"Roaming">>>>

\* os.Getenv
Getenv(k) == IF k = "HOME" THEN HOME ELSE IF k = "APPDATA" THEN APPDATA ELSE <<>>

RECURSIVE DropDots(_)
DropDots(p) ==
    IF p = <<>> THEN <<>>
    ELSE IF Head(p) = DOT \/ Head(p) = <<>> THEN DropDots(Tail(p))
    ELSE <<Head(p)>> \o DropDots(Tail(p))

\* filepath.Clean: drops "." and empty elements; the empty result is "."
Clean(p) == IF DropDots(p) = <<>> THEN <<DOT>> ELSE DropDots(p)

\* filepath.Join of two path strings: empty elements are ignored, and the
\* result is Cleaned; Join of nothing but empty strings is ""
Join(a, b) == IF a \o b = <<>> THEN <<>> ELSE Clean(a \o b)

\* filepath.Dir: all but the last element, Cleaned; "." for "" and for a
\* single relative element, the root for an element directly under it
Dir(p) ==
    IF p = <<>> THEN <<DOT>>
    ELSE Clean(SubSeq(p, 1, Len(p) - 1))

IsAbs(p) == p # <<>> /\ Head(p) = ROOT

\* the file a path string names for a system call made in directory wd
Resolve(wd, p) == IF IsAbs(p) THEN Clean(p) ELSE Clean(wd \o p)

IsPrefix(p, q) == Len(p) <= Len(q) /\ SubSeq(q, 1, Len(p)) = p

Prefixes(p) == { SubSeq(p, 1, n) : n \in 1..Len(p) }

----------------------------------------------------------------------------
(* Filesystem: fs is the set of absolute paths that exist *)

\* os.MkdirAll(p, 0755): p and every parent exist afterwards
MkdirAll(files, wd, p) == files \cup Prefixes(Resolve(wd, p))

\* os.RemoveAll(p): "" is a silent success, a path ending in "." is refused
\* (EINVAL), a missing path is a success, and otherwise p and everything
\* below it are removed unless the removal fails (rmOk = FALSE)
RemoveAll(files, wd, p, rmOk) ==
    IF p = <<>> THEN [fs |-> files, ok |-> TRUE]
    ELSE IF p[Len(p)] = DOT THEN [fs |-> files, ok |-> FALSE]
    ELSE IF Resolve(wd, p) \notin files THEN [fs |-> files, ok |-> TRUE]
    ELSE IF ~rmOk THEN [fs |-> files, ok |-> FALSE]
    ELSE [fs |-> { q \in files : ~IsPrefix(Resolve(wd, p), q) }, ok |-> TRUE]

\* the file the sqlite3 driver opens for a data source name: the name up
\* to the "?" that starts its parameters
DriverFile(dsn) ==
    IF dsn = <<>> THEN dsn
    ELSE [dsn EXCEPT ![Len(dsn)] = SelectSeq(dsn[Len(dsn)], LAMBDA t : t # CacheSuffix[1])]

----------------------------------------------------------------------------
(* Connection handles: values of type pointer to sql.DB *)

\* the nil *sql.DB
NilDB == [kind |-> "nil", id |-> 0, dsn |-> <<>>, idle |-> 0, open |-> 0]

\* a handle returned by sql.Open in call number id; idle/open are the
\* bounds this plugin has applied to it (0: none applied)
Opened(id, dsn, idle, open) ==
    [kind |-> "opened", id |-> id, dsn |-> dsn, idle |-> idle, open |-> open]

\* a handle created by the caller and passed to SetDB
External(id) == [kind |-> "external", id |-> id, dsn |-> <<>>, idle |-> 0, open |-> 0]

\* one library call made by a plugin method
Op(name, path, n) == [op |-> name, path |-> path, n |-> n]

----------------------------------------------------------------------------
(* Init *)

\* InitBranch without the DbName check
InitBranch_noNameCheck(cfg) == IF cfg.InMemory THEN "mem" ELSE "file"

\* InitBranch with the DbName check made before the InMemory check
InitBranch_nameFirst(cfg) ==
    IF cfg.DbName = <<>> THEN "noname"
    ELSE IF cfg.InMemory THEN "mem"
    ELSE "file"

\* Init: which branch is taken
InitBranch(cfg) ==
    IF cfg.InMemory THEN "mem"
    ELSE IF cfg.DbName = <<>> THEN "noname"
    ELSE "file"

\* createMemDB
createMemDB(st, id, env) ==
    IF env = "openFail"
    THEN [st EXCEPT !.err = "open", !.trace = <<Op("Open", MemoryDSN, 0)>>]
    ELSE [st EXCEPT !.DB = Opened(id, MemoryDSN, 0, 0), !.err = "nil",
                    !.trace = <<Op("Open", MemoryDSN, 0)>>]

\* createFileDB: the switch on runtime.GOOS
resolveDir(cfg, os) ==
    IF os = "windows" THEN
        [ok |-> TRUE,
         dir |-> IF cfg.WindowsDir # <<>> THEN cfg.WindowsDir
                 ELSE Join(Getenv("APPDATA"), cfg.WindowsDir)]
    ELSE IF os = "darwin" THEN
        [ok |-> TRUE,
         dir |-> IF cfg.MacDir # <<>> THEN cfg.MacDir
                 ELSE Join(Getenv("HOME"),
                           << <<"Library">>, <<"Application Support">>,
                              cfg.DbName, cfg.DbName \o DbExt >>)]
    ELSE IF os = "linux" THEN
        [ok |-> TRUE,
         dir |-> IF cfg.LinuxDir # <<>> THEN cfg.LinuxDir
                 ELSE Join(Getenv("HOME"), << <<".config">>, cfg.DbName >>)]
    ELSE [ok |-> FALSE, dir |-> <<>>]

\* fileName with the shared-cache suffix appended twice
fileName_suffixTwice(cfg) ==
    IF cfg.CacheShared THEN ((cfg.DbName \o DbExt) \o CacheSuffix) \o CacheSuffix
    ELSE cfg.DbName \o DbExt

\* createFileDB: fileName
fileName(cfg) ==
    IF cfg.CacheShared THEN (cfg.DbName \o DbExt) \o CacheSuffix
    ELSE cfg.DbName \o DbExt

\* createFileDB: idle
effIdle(cfg) == IF cfg.MaxIdleConnections = 0 THEN DefaultIdle ELSE cfg.MaxIdleConnections

\* effOpen testing the idle setting instead of the open setting
effOpen_readsIdle(cfg) ==
    IF cfg.MaxIdleConnections = 0 THEN DefaultOpen ELSE cfg.MaxOpenConnections

\* createFileDB: open
effOpen(cfg) == IF cfg.MaxOpenConnections = 0 THEN DefaultOpen ELSE cfg.MaxOpenConnections

\* createFileDB: the value stored in savedPath
savedPathOf(dir, name) == <<name>>

\* createFileDB, from MkdirAll on (dir is the resolved directory)
createFileDBIn(st, cfg, wd, id, env, dir) ==
    LET name   == fileName(cfg)
        dbPath == Join(dir, <<name>>)
        idle   == effIdle(cfg)
        open   == effOpen(cfg)
        mk     == <<Op("MkdirAll", dir, 0)>>
        op     == mk \o <<Op("Open", dbPath, 0)>>
        pool   == op \o <<Op("SetMaxIdleConns", dbPath, idle),
                          Op("SetMaxOpenConns", dbPath, open),
                          Op("Ping", dbPath, 0)>>
        made   == MkdirAll(st.fs, wd, dir)
        saved  == savedPathOf(dir, name)
    IN  IF env = "mkdirFail"
        THEN [st EXCEPT !.err = "mkdir", !.trace = mk]
        ELSE IF env = "openFail"
        THEN [st EXCEPT !.fs = made, !.savedPath = saved, !.err = "open", !.trace = op]
        ELSE IF env = "pingFail"
        THEN [st EXCEPT !.fs = made, !.savedPath = saved, !.err = "ping", !.trace = pool]
        ELSE [st EXCEPT !.fs = made \cup {Resolve(wd, DriverFile(dbPath))},
                        !.savedPath = saved,
                        !.DB = Opened(id, dbPath, idle, open),
                        !.err = "nil", !.trace = pool]

\* createFileDB
createFileDB(st, cfg, os, wd, id, env) ==
    LET r == resolveDir(cfg, os)
    IN  IF ~r.ok THEN [st EXCEPT !.err = "unsupported", !.trace = <<>>]
        ELSE createFileDBIn(st, cfg, wd, id, env, r.dir)

\* Init
InitCall(st, cfg, os, wd, id, env) ==
    IF InitBranch(cfg) = "mem" THEN createMemDB(st, id, env)
    ELSE IF InitBranch(cfg) = "noname" THEN [st EXCEPT !.err = "config", !.trace = <<>>]
    ELSE createFileDB(st, cfg, os, wd, id, env)

----------------------------------------------------------------------------
(* Shutdown *)

\* shutdownDeletes without the InMemory check
shutdownDeletes_ignoreInMemory(cfg) == cfg.DeleteOnShutdown

\* Shutdown: whether anything is deleted
shutdownDeletes(cfg) == cfg.DeleteOnShutdown /\ ~cfg.InMemory

\* Shutdown: the argument of os.RemoveAll
shutdownTarget(cfg, saved) == IF cfg.DeleteDir THEN Dir(saved) ELSE saved

\* Shutdown
ShutdownCall(st, cfg, wd, rmOk) ==
    IF ~shutdownDeletes(cfg) THEN [st EXCEPT !.err = "nil", !.trace = <<>>]
    ELSE LET target == shutdownTarget(cfg, st.savedPath)
             r      == RemoveAll(st.fs, wd, target, rmOk)
         IN  [st EXCEPT !.fs = r.fs,
                        !.err = IF r.ok THEN "nil" ELSE "delete",
                        !.trace = <<Op("RemoveAll", target, 0)>>]

----------------------------------------------------------------------------
(* SetDB, GetDB, Execute, Query *)

\* SetDB without the nil check
SetDBCall_noNilCheck(st, newDB) == [st EXCEPT !.DB = newDB, !.err = "nil", !.trace = <<>>]

\* SetDB
SetDBCall(st, newDB) ==
    IF newDB # NilDB THEN [st EXCEPT !.DB = newDB, !.err = "nil", !.trace = <<>>]
    ELSE [st EXCEPT !.err = "nilhandle", !.trace = <<>>]

\* GetDB
GetDBCall(st) == [st EXCEPT !.err = "nil", !.trace = <<>>, !.ret = st.DB]

\* Execute / Query: a method call on the nil *sql.DB panics; any other
\* handle gets the statement, and the driver's answer is returned
PassCall(st, name, driverOk) ==
    IF st.DB = NilDB THEN [st EXCEPT !.err = "panic", !.trace = <<>>]
    ELSE [st EXCEPT !.err = IF driverOk THEN "nil" ELSE "driver",
                    !.trace = <<Op(name, st.DB.dsn, st.DB.id)>>]

----------------------------------------------------------------------------
(* The lifecycle of the specification, kept as a history variable *)

PhaseAfter(op, err, ph) ==
    IF op = "Init" THEN (IF err = "nil" THEN "Ready" ELSE "Uninitialized")
    ELSE IF op = "Shutdown" THEN "Closed"
    ELSE ph

----------------------------------------------------------------------------
(* The state machine *)

Names == { <<>>, <<"app">> }

\* override directories: none or an absolute one
Dirs == { <<>>, <<ROOT, <<"data">>>> }

Platforms == { "windows", "darwin", "linux", "plan9" }

Cwds == { <<ROOT, <<"work">>>>, <<ROOT, <<"data">>>> }

ConnCfgs == 0..MaxConnCfg

\* configurations that leave the pool bounds unset and vary everything else
PathConfigs ==
    [ DbName : Names, InMemory : BOOLEAN,
      MacDir : Dirs, WindowsDir : Dirs, LinuxDir : Dirs,
      DeleteOnShutdown : BOOLEAN, DeleteDir : BOOLEAN,
      CacheShared : BOOLEAN,
      MaxOpenConnections : {0}, MaxIdleConnections : {0} ]

\* configurations that vary the pool bounds, with default directories
PoolConfigs ==
    [ DbName : Names \ {<<>>}, InMemory : {FALSE},
      MacDir : {<<>>}, WindowsDir : {<<>>}, LinuxDir : {<<>>},
      DeleteOnShutdown : {FALSE}, DeleteDir : {FALSE},
      CacheShared : {FALSE},
      MaxOpenConnections : ConnCfgs, MaxIdleConnections : ConnCfgs ]

Configs == PathConfigs \cup PoolConfigs

InitEnvs == { "ok", "mkdirFail", "openFail", "pingFail" }

ExtHandles == { External(1), External(2) }

\* files present before the plugin starts
InitialFiles ==
    UNION { Prefixes(p) : p \in
        { HOME, APPDATA, <<ROOT, <<"work">>, <<"notes.txt">>>>,
          <<ROOT, <<"data">>, <<"keep.txt">>>>,
          APPDATA \o << <<"other.ini">> >> } }

St == [DB |-> DB, savedPath |-> savedPath, fs |-> fs,
       err |-> lastErr, trace |-> trace, ret |-> ret]

Snapshot == [DB |-> DB, savedPath |-> savedPath, fs |-> fs, phase |-> phase]

Apply(op, a, r) ==
    /\ DB' = r.DB
    /\ arg' = a
    /\ pre' = Snapshot
    /\ savedPath' = r.savedPath
    /\ fs' = r.fs
    /\ lastErr' = r.err
    /\ trace' = r.trace
    /\ ret' = r.ret
    /\ lastOp' = op
    /\ calls' = calls + 1
    /\ phase' = PhaseAfter(op, r.err, phase)
    /\ UNCHANGED <<config, goos, cwd>>

Start ==
    /\ config \in Configs
    /\ goos \in Platforms
    /\ cwd \in Cwds
    /\ fs = InitialFiles
    /\ DB = NilDB
    /\ savedPath = <<>>
    /\ calls = 0
    /\ lastOp = "none"
    /\ lastErr = "nil"
    /\ ret = NilDB
    /\ trace = <<>>
    /\ arg = NilDB
    /\ phase = "Uninitialized"
    /\ pre = Snapshot

Init ==
    /\ calls < MaxCalls
    /\ \E env \in InitEnvs : Apply("Init", NilDB, InitCall(St, config, goos, cwd, calls + 1, env))

Shutdown ==
    /\ calls < MaxCalls
    /\ \E rmOk \in BOOLEAN : Apply("Shutdown", NilDB, ShutdownCall(St, config, cwd, rmOk))

SetDB ==
    /\ calls < MaxCalls
    /\ \E newDB \in ExtHandles \cup {NilDB} : Apply("SetDB", newDB, SetDBCall(St, newDB))

GetDB ==
    /\ calls < MaxCalls
    /\ Apply("GetDB", NilDB, GetDBCall(St))

Execute ==
    /\ calls < MaxCalls
    /\ \E driverOk \in BOOLEAN : Apply("Execute", NilDB, PassCall(St, "Exec", driverOk))

Query ==
    /\ calls < MaxCalls
    /\ \E driverOk \in BOOLEAN : Apply("Query", NilDB, PassCall(St, "Query", driverOk))

Next == Init \/ Shutdown \/ SetDB \/ GetDB \/ Execute \/ Query

Spec == Start /\ [][Next]_vars

----------------------------------------------------------------------------
(* Properties *)

\* positions of the library call named name in t
At(t, name) == { i \in DOMAIN t : t[i].op = name }

\* the file on disk behind a handle that Init opened
DbFileOf(h) == Resolve(cwd, DriverFile(h.dsn))

\* the override directory configured for the running platform
OverrideHere ==
    IF goos = "windows" THEN config.WindowsDir
    ELSE IF goos = "darwin" THEN config.MacDir
    ELSE config.LinuxDir

FileMode == ~config.InMemory /\ config.DbName # <<>>

\* C1: a Shutdown that reports success, made with DeleteOnShutdown set on a
\* manager holding the handle of a successful file-mode Init, removes
\* exactly the database file Init opened (DeleteDir unset) or exactly the
\* directory holding it (DeleteDir set).
C1_ShutdownRemovesOpenedDb ==
    ( /\ lastOp = "Shutdown"
      /\ lastErr = "nil"
      /\ FileMode
      /\ config.DeleteOnShutdown
      /\ pre.phase = "Ready"
      /\ pre.DB.kind = "opened" )
    => fs = IF config.DeleteDir
            THEN { q \in pre.fs : ~IsPrefix(Dir(DbFileOf(pre.DB)), q) }
            ELSE pre.fs \ { DbFileOf(pre.DB) }

\* C2: Shutdown with DeleteOnShutdown unset or InMemory set makes no
\* filesystem call, changes no file, leaves the handle and the recorded
\* path as they were and returns no error, whatever was called before.
C2_ShutdownNoOp ==
    ( /\ lastOp = "Shutdown"
      /\ (~config.DeleteOnShutdown \/ config.InMemory) )
    => /\ trace = <<>>
       /\ fs = pre.fs
       /\ DB = pre.DB
       /\ savedPath = pre.savedPath
       /\ lastErr = "nil"

\* a Shutdown that deletes nothing although Init has created the database file
C2_Witness ==
    /\ lastOp = "Shutdown"
    /\ ~config.DeleteOnShutdown
    /\ ~config.InMemory
    /\ pre.DB.kind = "opened"
    /\ DbFileOf(pre.DB) \in fs

\* C3: Init with an empty DbName and InMemory unset returns the
\* configuration error, makes no library call (no MkdirAll, Open, pool
\* setting or Ping) and leaves files, handle and recorded path unchanged.
C3_EmptyNameRejected ==
    ( /\ lastOp = "Init"
      /\ config.DbName = <<>>
      /\ ~config.InMemory )
    => /\ lastErr = "config"
       /\ trace = <<>>
       /\ fs = pre.fs
       /\ DB = pre.DB
       /\ savedPath = pre.savedPath

\* the rejected Init on a manager that already holds a handle
C3_Witness ==
    /\ lastOp = "Init"
    /\ config.DbName = <<>>
    /\ ~config.InMemory
    /\ lastErr = "config"
    /\ pre.DB # NilDB

\* C4: Init with InMemory set makes exactly one library call, the Open of
\* the in-memory target, whatever DbName, the override directories,
\* CacheShared and the platform are; it changes no file and no recorded
\* path, and either stores the opened handle or returns the open error and
\* leaves the handle as it was.
C4_InMemoryIgnoresPaths ==
    ( lastOp = "Init" /\ config.InMemory )
    => /\ trace = <<Op("Open", MemoryDSN, 0)>>
       /\ fs = pre.fs
       /\ savedPath = pre.savedPath
       /\ \/ lastErr = "nil" /\ DB.kind = "opened" /\ DB.dsn = MemoryDSN
          \/ lastErr = "open" /\ DB = pre.DB

\* a successful in-memory Init with no name, on an unsupported platform,
\* with every override directory set
C4_Witness ==
    /\ lastOp = "Init"
    /\ config.InMemory
    /\ config.DbName = <<>>
    /\ goos = "plan9"
    /\ config.MacDir # <<>> /\ config.WindowsDir # <<>> /\ config.LinuxDir # <<>>
    /\ config.CacheShared
    /\ lastErr = "nil"
    /\ DB.dsn = MemoryDSN

\* C5: an Init that returns an error leaves the stored handle and the
\* recorded path as they were before the call.
C5_FailedInitLeavesNoState ==
    ( lastOp = "Init" /\ lastErr # "nil" )
    => /\ DB = pre.DB
       /\ savedPath = pre.savedPath

\* C6: with no override directory for the running platform, a successful
\* file-mode Init opens the documented default: on linux the directory
\* HOME/.config/name and the file name.db in it, on darwin the file
\* HOME/Library/Application Support/name/name.db, on windows a file
\* under APPDATA.
C6_DefaultPathTemplate ==
    ( /\ lastOp = "Init"
      /\ lastErr = "nil"
      /\ FileMode
      /\ OverrideHere = <<>> )
    => LET file == DriverFile(DB.dsn)
           nm   == config.DbName
       IN  /\ goos = "linux" =>
                /\ trace[1] = Op("MkdirAll", HOME \o << <<".config">>, nm >>, 0)
                /\ file = HOME \o << <<".config">>, nm, nm \o <<".db">> >>
           /\ goos = "darwin" =>
                file = HOME \o << <<"Library">>, <<"Application Support">>,
                                  nm, nm \o <<".db">> >>
           /\ goos = "windows" =>
                IsPrefix(APPDATA, file) /\ file # APPDATA

\* C7: a file-mode Init that reaches the Ping has applied, before the
\* Ping, the idle bound (2 when MaxIdleConnections is 0, otherwise
\* MaxIdleConnections) and the open bound (1 when MaxOpenConnections is 0,
\* otherwise MaxOpenConnections), each resolved from its own setting; a
\* successful file-mode Init has reached the Ping and stores a handle
\* carrying both bounds.
C7_PoolBounds ==
    LET idle == IF config.MaxIdleConnections = 0 THEN 2 ELSE config.MaxIdleConnections
        open == IF config.MaxOpenConnections = 0 THEN 1 ELSE config.MaxOpenConnections
    IN  ( lastOp = "Init" /\ ~config.InMemory ) =>
          /\ lastErr = "nil" => At(trace, "Ping") # {}
          /\ lastErr = "nil" => DB.idle = idle /\ DB.open = open
          /\ \A k \in At(trace, "Ping") :
                /\ \E i \in At(trace, "SetMaxIdleConns") : i < k
                /\ \E j \in At(trace, "SetMaxOpenConns") : j < k
                /\ \A i \in At(trace, "SetMaxIdleConns") : i < k /\ trace[i].n = idle
                /\ \A j \in At(trace, "SetMaxOpenConns") : j < k /\ trace[j].n = open

\* a successful Init with the idle bound unset and the open bound set
C7_Witness ==
    /\ lastOp = "Init"
    /\ lastErr = "nil"
    /\ ~config.InMemory
    /\ config.MaxIdleConnections = 0
    /\ config.MaxOpenConnections = 2
    /\ DB.idle = 2
    /\ DB.open = 2

\* C8: every Open made by a file-mode Init names a file whose last path
\* element is DbName, ".db" and then the shared-cache suffix exactly once
\* when CacheShared is set, and DbName and ".db" alone when it is not;
\* also on a manager that has been initialised before.
C8_SharedCacheSuffixOnce ==
    ( lastOp = "Init" /\ ~config.InMemory ) =>
        \A i \in At(trace, "Open") :
            LET p == trace[i].path
                f == p[Len(p)]
            IN  /\ p # <<>>
                /\ f = IF config.CacheShared
                       THEN config.DbName \o <<".db", "?cache=shared">>
                       ELSE config.DbName \o <<".db">>
                /\ Len(SelectSeq(f, LAMBDA t : t = "?cache=shared"))
                     = IF config.CacheShared THEN 1 ELSE 0

\* a second successful Init with CacheShared set
C8_Witness ==
    /\ lastOp = "Init"
    /\ lastErr = "nil"
    /\ FileMode
    /\ config.CacheShared
    /\ pre.DB.kind = "opened"
    /\ pre.savedPath # <<>>
    /\ At(trace, "Open") # {}

\* C9: SetDB with the nil handle returns the nil-handle error and leaves
\* the handle as it was; with any other handle it returns no error and the
\* handle is the one supplied. Neither changes a file or the recorded
\* path, and GetDB returns the stored handle without changing it.
C9_SetDB ==
    /\ lastOp = "SetDB" =>
          /\ IF arg = NilDB
             THEN lastErr = "nilhandle" /\ DB = pre.DB
             ELSE lastErr = "nil" /\ DB = arg
          /\ savedPath = pre.savedPath
          /\ fs = pre.fs
          /\ trace = <<>>
    /\ lastOp = "GetDB" =>
          /\ ret = DB
          /\ DB = pre.DB
          /\ lastErr = "nil"

\* SetDB with the nil handle on a manager that holds an opened handle
C9_Witness ==
    /\ lastOp = "SetDB"
    /\ arg = NilDB
    /\ lastErr = "nilhandle"
    /\ pre.DB.kind = "opened"
    /\ DB = pre.DB

\* C10: Execute and Query reach a connection handle only in the Ready
\* state, that is after a successful Init and before Shutdown.
C10_PassthroughOnlyWhenReady ==
    ( lastOp \in {"Execute", "Query"} /\ lastErr # "panic" )
    => pre.phase = "Ready"

====
